---- MODULE Spec2Model ----
(***************************************************************************)
(* A model of the dashboard linter's tolerant JSON decoding                *)
(* (lint/lint.go), of its panel flattening, and of the panel units rule.   *)
(*                                                                         *)
(* Every operation is recorded as a call: pc names the function that ran   *)
(* last, arg holds its input and ret its outcome.  An outcome is a return  *)
(* value (Ok), a returned error (Err) or a run-time panic (Panic), which   *)
(* in Go unwinds through encoding/json and through the rule engine.        *)
(***************************************************************************)
EXTENDS Integers, Sequences, FiniteSets, TLC

VARIABLES pc, arg, ret, heap, writers, g

vars == <<pc, arg, ret, heap, writers, g>>

(***************************************************************************)
(* Bounds of the model.                                                    *)
(***************************************************************************)
MaxArr == 2

MaxOverrides == 2

MaxProps == 2

MaxPanels == 4

MaxRows == 2

MaxTargets == 2

MaxConcurrentPanels == 2

NumCalls == 2

(***************************************************************************)
(* JSON documents, and the Go values encoding/json decodes them to when    *)
(* the destination is an interface{}: nil, string, float64, bool,          *)
(* []interface{} and map[string]interface{}.  k is the dynamic type.       *)
(***************************************************************************)
JNull == [k |-> "null", v |-> 0]

JStr(s) == [k |-> "string", v |-> s]

JNum(n) == [k |-> "number", v |-> n]

JBool(b) == [k |-> "bool", v |-> b]

JArr(a) == [k |-> "array", v |-> a]

JObj(f) == [k |-> "object", v |-> f]

\* A key of a JSON object that the document does not carry.
Absent == [k |-> "absent", v |-> 0]

Strs == {"", "ds-uid"}

Scalars == {JNull, JNum(5), JBool(TRUE)} \cup {JStr(s) : s \in Strs}

Arrays == UNION {{JArr(a) : a \in [1..n -> Scalars]} : n \in 0..MaxArr}

ObjectsOver(keys, vals) == UNION {{JObj(f) : f \in [K -> vals]} : K \in SUBSET keys}

\* The value of key name in the JSON object obj, Absent when it has none.
Field(obj, name) == IF name \in DOMAIN obj.v THEN obj.v[name] ELSE Absent

(***************************************************************************)
(* Outcomes of a call.                                                     *)
(***************************************************************************)
Ok(val) == [k |-> "ok", v |-> val]

Err(msg) == [k |-> "err", v |-> msg]

Panic(msg) == [k |-> "panic", v |-> msg]

(***************************************************************************)
(* Datasource.UnmarshalJSON.  buf is a well-formed JSON value (the         *)
(* enclosing decode has scanned it), so the first json.Unmarshal into      *)
(* interface{} succeeds and the type switch decides.                       *)
(***************************************************************************)
\* Datasource.UnmarshalJSON with the uid's type left unchecked.
Datasource_UncheckedUid(raw) ==
    CASE raw.k = "null" -> Ok("")
      [] raw.k = "string" -> Ok(raw.v)
      [] raw.k = "object" ->
            IF "uid" \notin DOMAIN raw.v
            THEN Err("invalid type for field 'datasource': missing uid field")
            ELSE Ok(IF raw.v["uid"].k = "string" THEN raw.v["uid"].v ELSE "")
      [] OTHER -> Err("invalid type for field 'datasource'")

Datasource_UnmarshalJSON(raw) ==
    CASE raw.k = "null" -> Ok("")
      [] raw.k = "string" -> Ok(raw.v)
      [] raw.k = "object" ->
            IF "uid" \notin DOMAIN raw.v
            THEN Err("invalid type for field 'datasource': missing uid field")
            ELSE IF raw.v["uid"].k # "string"
                 THEN Err("invalid type for field 'datasource': invalid uid field type, should be string")
                 ELSE Ok(raw.v["uid"].v)
      [] OTHER -> Err("invalid type for field 'datasource'")

\* A struct field of type Datasource: encoding/json calls UnmarshalJSON when
\* the key is present (a JSON null included) and leaves the zero value, the
\* empty string, when the key is absent.
DecodeDatasourceField(j) ==
    IF j.k = "absent" THEN Ok("") ELSE Datasource_UnmarshalJSON(j)

DatasourceInputs == Scalars \cup Arrays \cup ObjectsOver({"uid", "type"}, Scalars) \cup {Absent}

(***************************************************************************)
(* TemplateValue.UnmarshalJSON.  The receiver starts at its zero value.    *)
(* json.Unmarshal into map[string]interface{} accepts an object or null    *)
(* (a nil map) and fails on every other shape.  Indexing an empty slice    *)
(* and a failed single-value type assertion panic.                         *)
(***************************************************************************)
\* The string taken from one of the keys "text" and "value", given present.
TemplateValueString(x, name) ==
    CASE x.k = "string" -> Ok(x.v)
      [] x.k = "array" ->
            IF Len(x.v) = 0
            THEN Panic("index out of range [0] with length 0")
            ELSE IF x.v[1].k # "string"
                 THEN Panic("interface conversion: interface {} is not string")
                 ELSE Ok(x.v[1].v)
      [] OTHER -> Err("invalid type for field '" \o name \o "'")

TemplateValue_UnmarshalJSON(j) ==
    IF j.k \notin {"object", "null"}
    THEN Err("json: cannot unmarshal into Go value of type map[string]interface {}")
    ELSE LET raw == IF j.k = "null" THEN JObj(<<>>) ELSE j
             txt == Field(raw, "text")
             val == Field(raw, "value")
             t1 == IF txt.k = "absent" THEN Ok("") ELSE TemplateValueString(txt, "text")
             t2 == IF val.k = "absent" THEN Ok("") ELSE TemplateValueString(val, "value")
         IN  IF t1.k # "ok" THEN t1
             ELSE IF t2.k # "ok" THEN t2
             ELSE Ok([Text |-> t1.v, Value |-> t2.v])

(***************************************************************************)
(* Template.UnmarshalJSON.  The model keeps the keys "type", "query" and   *)
(* "current"; "type" is a JSON string or absent.  Decoding into the raw    *)
(* struct runs TemplateValue.UnmarshalJSON on "current" when present.      *)
(***************************************************************************)
TemplateTypes == {"query", "adhoc", "custom", "datasource"}

QueryInputs == Scalars \cup Arrays \cup ObjectsOver({"query"}, Scalars) \cup {Absent}

CurrentInputs ==
    {Absent, JObj([text |-> JStr("All")]), JObj([text |-> JArr(<<>>)]),
     JObj([value |-> JNum(5)])}

TemplateInputs ==
    { JObj([type |-> JStr(ty), query |-> q, current |-> c]) :
        ty \in TemplateTypes, q \in QueryInputs, c \in CurrentInputs }
    \cup { JObj([query |-> q]) : q \in QueryInputs }

\* The switch on raw.Query of a template that is neither adhoc nor custom.
\* An absent key and a JSON null both leave raw.Query nil.
TemplateQuery(q) ==
    CASE q.k = "string" -> Ok(q.v)
      [] q.k = "object" ->
            IF Field(q, "query").k = "string"
            THEN Ok(q.v["query"].v)
            ELSE Panic("interface conversion: interface {} is not string")
      [] OTHER -> Err("invalid type for field 'query'")

Template_UnmarshalJSON(j) ==
    LET ty  == Field(j, "type")
        cur == Field(j, "current")
        rawCurrent == IF cur.k = "absent" THEN Ok([Text |-> "", Value |-> ""])
                      ELSE TemplateValue_UnmarshalJSON(cur)
        Type == IF ty.k = "string" THEN ty.v ELSE ""
    IN  IF rawCurrent.k # "ok" THEN rawCurrent
        ELSE IF Type # "adhoc" /\ Type # "custom"
             THEN LET q == TemplateQuery(Field(j, "query"))
                  IN  IF q.k # "ok" THEN q
                      ELSE Ok([Type |-> Type, Query |-> q.v, Current |-> rawCurrent.v])
             ELSE Ok([Type |-> Type, Query |-> "", Current |-> rawCurrent.v])

(***************************************************************************)
(* NewDashboard: json.Unmarshal of the document, here of its               *)
(* templating.list.  The elements are decoded in order; the first error is *)
(* returned; a panic in an UnmarshalJSON unwinds through json.Unmarshal    *)
(* and NewDashboard, which recover nothing.                                *)
(***************************************************************************)
RECURSIVE DecodeList(_, _)
DecodeList(list, done) ==
    IF list = <<>> THEN Ok(done)
    ELSE LET t == Template_UnmarshalJSON(Head(list))
         IN  IF t.k # "ok" THEN t
             ELSE DecodeList(Tail(list), Append(done, t.v))

NewDashboard(list) == DecodeList(list, <<>>)

GoodTemplate == JObj([type |-> JStr("query"), query |-> JStr("label_values(job)")])

TemplateLists ==
    {<<>>} \cup {<<t>> : t \in TemplateInputs}
    \cup {<<GoodTemplate, t>> : t \in TemplateInputs}
    \cup {<<t, GoodTemplate>> : t \in TemplateInputs}

(***************************************************************************)
(* OverrideProperty.UnmarshalJSON.  Both attempts decode into a local raw  *)
(* struct; nothing is copied from raw to the receiver, which keeps its     *)
(* zero value, and every path returns nil.                                 *)
(***************************************************************************)
\* json.Unmarshal of j into struct{Id string; Value string} (asInt FALSE) or
\* struct{Id string; Value int} (asInt TRUE): a JSON null or an absent key
\* leaves a field alone, a value of another type is an error.
DecodeRawProperty(j, asInt) ==
    IF j.k = "null" THEN Ok([Id |-> "", Value |-> IF asInt THEN JNum(0) ELSE JStr("")])
    ELSE IF j.k # "object" THEN Err("json: cannot unmarshal into Go value")
    ELSE LET id  == Field(j, "id")
             val == Field(j, "value")
             want == IF asInt THEN "number" ELSE "string"
         IN  IF id.k \notin {"string", "null", "absent"} \/ val.k \notin {want, "null", "absent"}
             THEN Err("json: cannot unmarshal into Go struct field")
             ELSE Ok([Id |-> IF id.k = "string" THEN id.v ELSE "",
                      Value |-> IF val.k = want THEN val
                                ELSE IF asInt THEN JNum(0) ELSE JStr("")])

OverrideProperty_UnmarshalJSON(j) ==
    LET o == [Id |-> "", Value |-> ""]
        raw == DecodeRawProperty(j, FALSE)
        rawInt == DecodeRawProperty(j, TRUE)
    IN  IF raw.k = "ok" THEN Ok(o)
        ELSE IF rawInt.k = "ok" THEN Ok(o)
        ELSE Ok(o)

PropertyIds == {JStr("unit"), JStr("mappings"), JNum(5)}

PropertyValues == {JStr("bytes"), JStr(""), JNum(5), JNull, JArr(<<>>), JBool(TRUE)}

OverridePropertyInputs ==
    ObjectsOver({"id"}, PropertyIds) \cup {JNull, JNum(5)}
    \cup {JObj([id |-> i, value |-> x]) : i \in PropertyIds, x \in PropertyValues}

(***************************************************************************)
(* The panel units rule.                                                   *)
(***************************************************************************)
validUnits ==
    {"none", "string", "short", "percent", "percentunit", "humidity", "dB",
     "hex0x", "hex", "sci", "locale", "pixel", "accMS2", "accFS2", "accG",
     "degree", "radian", "grad", "arcmin", "arcsec", "areaM2", "areaF2",
     "areaMI2", "flops", "mflops", "gflops", "tflops", "pflops", "eflops",
     "zflops", "yflops", "ppm", "conppb", "conngm3", "conngNm3", "conμgm3",
     "conμgNm3", "conmgm3", "conmgNm3", "congm3", "congNm3", "conmgdL",
     "conmmolL", "currencyUSD", "currencyGBP", "currencyEUR",
     "currencyJPY", "currencyRUB", "currencyUAH", "currencyBRL",
     "currencyDKK", "currencyISK", "currencyNOK", "currencySEK",
     "currencyCZK", "currencyCHF", "currencyPLN", "currencyBTC",
     "currencymBTC", "currencyμBTC", "currencyZAR", "currencyINR",
     "currencyKRW", "currencyIDR", "currencyPHP", "currencyVND", "bytes",
     "decbytes", "bits", "decbits", "kbytes", "deckbytes", "mbytes",
     "decmbytes", "gbytes", "decgbytes", "tbytes", "dectbytes", "pbytes",
     "decpbytes", "pps", "binBps", "Bps", "binbps", "bps", "KiBs",
     "Kibits", "KBs", "Kbits", "MiBs", "Mibits", "MBs", "Mbits", "GiBs",
     "Gibits", "GBs", "Gbits", "TiBs", "Tibits", "TBs", "Tbits", "PiBs",
     "Pibits", "PBs", "Pbits", "dateTimeAsIso",
     "dateTimeAsIsoNoDateIfToday", "dateTimeAsUS",
     "dateTimeAsUSNoDateIfToday", "dateTimeAsLocal",
     "dateTimeAsLocalNoDateIfToday", "dateTimeAsSystem", "dateTimeFromNow",
     "watt", "kwatt", "megwatt", "gwatt", "mwatt", "Wm2", "voltamp",
     "kvoltamp", "voltampreact", "kvoltampreact", "watth", "watthperkg",
     "kwatth", "kwattm", "amph", "kamph", "mamph", "joule", "ev", "amp",
     "kamp", "mamp", "volt", "kvolt", "mvolt", "dBm", "ohm", "kohm",
     "Mohm", "farad", "µfarad", "nfarad", "pfarad", "ffarad", "henry",
     "mhenry", "µhenry", "lumens", "flowgpm", "flowcms", "flowcfs",
     "flowcfm", "litreh", "flowlpm", "flowmlpm", "lux", "forceNm",
     "forcekNm", "forceN", "forcekN", "Hs", "KHs", "MHs", "GHs", "THs",
     "PHs", "EHs", "massmg", "massg", "masslb", "masskg", "masst",
     "lengthmm", "lengthin", "lengthft", "lengthm", "lengthkm", "lengthmi",
     "pressurembar", "pressurebar", "pressurekbar", "pressurepa",
     "pressurehpa", "pressurekpa", "pressurehg", "pressurepsi", "radbq",
     "radci", "radgy", "radrad", "radsv", "radmsv", "radusv", "radrem",
     "radexpckg", "radr", "radsvh", "radmsvh", "radusvh", "rotrpm",
     "rothz", "rotrads", "rotdegs", "celsius", "fahrenheit", "kelvin",
     "hertz", "ns", "µs", "ms", "s", "m", "h", "d", "dtdurationms",
     "dtdurations", "dthms", "dtdhms", "timeticks", "clockms", "clocks",
     "cps", "ops", "reqps", "rps", "wps", "iops", "cpm", "opm", "rpm",
     "wpm", "mps", "mpm", "velocityms", "velocitykmh", "velocitymph",
     "velocityknot", "mlitre", "litre", "m3", "Nm3", "dm3", "gallons",
     "bool", "bool_yes_no", "bool_on_off"}

panelTypeStat == "stat"

panelTypeSingleStat == "singlestat"

panelTypeGraph == "graph"

panelTypeTimeTable == "table-with-time"

panelTypeTimeSeries == "timeseries"

panelTypeGauge == "gauge"

\* json.Unmarshal(p.Options, &opts) into StatOptions, a struct whose
\* reduceOptions member holds a string "fields".  Options is Absent (a nil
\* RawMessage, which json.Unmarshal rejects) or a JSON value.
DecodeStatOptions(options) ==
    IF options.k = "absent" THEN Err("unexpected end of JSON input")
    ELSE IF options.k = "null" THEN Ok([Fields |-> ""])
    ELSE IF options.k # "object" THEN Err("json: cannot unmarshal into Go value of type StatOptions")
    ELSE LET ro == Field(options, "reduceOptions")
         IN  IF ro.k \in {"absent", "null"} THEN Ok([Fields |-> ""])
             ELSE IF ro.k # "object" THEN Err("json: cannot unmarshal into Go struct field")
             ELSE LET f == Field(ro, "fields")
                  IN  IF f.k \in {"absent", "null"} THEN Ok([Fields |-> ""])
                      ELSE IF f.k # "string" THEN Err("json: cannot unmarshal into Go struct field")
                      ELSE Ok([Fields |-> f.v])

hasReduceOptionsNonNumericFields(reduceOpts) == reduceOpts.Fields # ""

\* PanelRuleResults.AddError: one more result, of severity Error.
AddError(r, message) == Append(r, [severity |-> "Error", message |-> message])

\* All override properties of the panel, in the order the two nested loops
\* of getConfiguredUnit and getValueMappings visit them.  FieldConfig is a
\* pointer: NilFieldConfig is the nil one.
NilFieldConfig == [k |-> "nil"]

RECURSIVE Concat(_)
Concat(seqs) == IF seqs = <<>> THEN <<>> ELSE Head(seqs) \o Concat(Tail(seqs))

ScannedProperties(p) ==
    IF p.FieldConfig.k = "nil" THEN <<>>
    ELSE Concat([i \in 1..Len(p.FieldConfig.Overrides) |->
                    p.FieldConfig.Overrides[i].OverrideProperties])

\* The loop of getConfiguredUnit over the scanned properties: every property
\* with id "unit" overwrites configuredUnit with o.Value.(string), a type
\* assertion that panics when the dynamic type of Value is not string.
RECURSIVE ScanUnit(_, _)
ScanUnit(props, configuredUnit) ==
    IF props = <<>> THEN Ok(configuredUnit)
    ELSE LET o == Head(props)
         IN  IF o.Id = "unit"
             THEN IF o.Value.k # "string"
                  THEN Panic("interface conversion: interface {} is not string")
                  ELSE ScanUnit(Tail(props), o.Value.v)
             ELSE ScanUnit(Tail(props), configuredUnit)

getConfiguredUnit(p) ==
    LET scanned == ScanUnit(ScannedProperties(p), "")
    IN  IF scanned.k # "ok" THEN scanned
        ELSE IF scanned.v = "" /\ p.FieldConfig.k # "nil" /\ p.FieldConfig.Defaults.Unit # ""
             THEN Ok(p.FieldConfig.Defaults.Unit)
             ELSE scanned

\* The first scanned property with id "mappings" and a non-nil value.
RECURSIVE ScanMappings(_)
ScanMappings(props) ==
    IF props = <<>> THEN JNull
    ELSE IF Head(props).Id = "mappings" /\ Head(props).Value.k # "null"
         THEN Head(props).Value
         ELSE ScanMappings(Tail(props))

\* getValueMappings returns (valueMappings, err); val is JNull for nil.
\* Defaults.Mappings is raw JSON: Absent (nil), a JSON value, or bytes that
\* are no JSON (k = "invalid"), on which json.Unmarshal fails and leaves
\* valueMappings nil.
getValueMappings(p) ==
    LET found == ScanMappings(ScannedProperties(p))
    IN  IF found.k # "null" THEN [val |-> found, err |-> ""]
        ELSE IF p.FieldConfig.k # "nil" /\ p.FieldConfig.Defaults.Mappings.k # "absent"
             THEN IF p.FieldConfig.Defaults.Mappings.k = "invalid"
                  THEN [val |-> JNull, err |-> "invalid character"]
                  ELSE [val |-> p.FieldConfig.Defaults.Mappings, err |-> ""]
             ELSE [val |-> JNull, err |-> ""]

InScopeTypes ==
    {panelTypeStat, panelTypeSingleStat, panelTypeGraph, panelTypeTimeTable,
     panelTypeTimeSeries, panelTypeGauge}

NoUnitsMessage(configuredUnit) ==
    "has no or invalid units defined: '" \o configuredUnit \o "'"

\* The fn of NewPanelUnitsRule: the results it returns, or the panic it
\* raises.
PanelUnitsRule(p) ==
    IF p.Type \notin InScopeTypes THEN Ok(<<>>)
    ELSE LET opts == DecodeStatOptions(p.Options)
             vm == getValueMappings(p)
             r == IF vm.err # "" THEN AddError(<<>>, vm.err) ELSE <<>>
             configuredUnit == getConfiguredUnit(p)
         IN  IF p.Type = "stat" /\ opts.k = "ok" /\ hasReduceOptionsNonNumericFields(opts.v)
             THEN Ok(<<>>)
             ELSE IF vm.val.k # "null" THEN Ok(r)
             ELSE IF configuredUnit.k # "ok" THEN configuredUnit
             ELSE IF configuredUnit.v # "" /\ configuredUnit.v \in validUnits THEN Ok(r)
             ELSE Ok(AddError(r, NoUnitsMessage(configuredUnit.v)))

(***************************************************************************)
(* The panels the rule is run on.                                          *)
(***************************************************************************)
UnitValues == {JStr("bytes"), JStr("short"), JStr("xyz"), JStr(""), JNum(5), JNull}

Properties ==
    {[Id |-> "unit", Value |-> x] : x \in UnitValues}
    \cup {[Id |-> "mappings", Value |-> x] : x \in {JNull, JArr(<<>>)}}
    \cup {[Id |-> "color", Value |-> JStr("red")]}

\* The lists of m overrides that hold n properties in all.
RECURSIVE OverrideLists(_, _)
OverrideLists(m, n) ==
    IF m = 0 THEN (IF n = 0 THEN {<<>>} ELSE {})
    ELSE UNION { { <<[OverrideProperties |-> ps]>> \o rest :
                     ps \in [1..i -> Properties], rest \in OverrideLists(m - 1, n - i) } :
                 i \in 0..n }

\* The lists of at most mo overrides that hold at most mp properties in all.
OverridesUpTo(mo, mp) == UNION { OverrideLists(m, n) : m \in 0..mo, n \in 0..mp }

InvalidJSON == [k |-> "invalid", v |-> 0]

MappingsInputs == {Absent, JNull, JArr(<<>>), InvalidJSON}

DefaultUnits == {"", "short", "xyz"}

FieldConfigsOver(overrides) ==
    {NilFieldConfig}
    \cup { [k |-> "set", Defaults |-> [Unit |-> u, Mappings |-> m], Overrides |-> o] :
             u \in DefaultUnits, m \in MappingsInputs, o \in overrides }

ReduceFields(f) == JObj([reduceOptions |-> JObj([fields |-> f])])

OptionsInputs ==
    {Absent, JObj(<<>>), ReduceFields(JStr("")), ReduceFields(JStr("/^foo$/")),
     JObj([reduceOptions |-> JNum(5)])}

PanelTypeInputs == InScopeTypes \cup {"text", "table"}

\* The options tried with a panel of type t: only a stat panel reads them.
OptionsFor(t) ==
    IF t = panelTypeStat THEN OptionsInputs ELSE {Absent, ReduceFields(JStr("/^foo$/"))}

(***************************************************************************)
(* Flattening.  A panel is its Title (here its position in the document:   *)
(* <<0, r, i, ...>> under row r, <<1, i, ...>> under the top-level         *)
(* panels), its child Panels and its Targets slice: a reference to the     *)
(* backing array that holds the Target records, and a length.  Copying a   *)
(* Panel copies the slice header, not the records: heap maps each backing  *)
(* array to the Idx fields of its records.                                 *)
(***************************************************************************)
\* Panel.GetPanels that appends the panel after its children.
RECURSIVE Panel_GetPanels_ChildrenFirst(_)
Panel_GetPanels_ChildrenFirst(p) ==
    Concat([i \in 1..Len(p.Panels) |-> Panel_GetPanels_ChildrenFirst(p.Panels[i])]) \o <<p>>

RECURSIVE Panel_GetPanels(_)
Panel_GetPanels(p) ==
    <<p>> \o Concat([i \in 1..Len(p.Panels) |-> Panel_GetPanels(p.Panels[i])])

Row_GetPanels(r) ==
    Concat([i \in 1..Len(r.Panels) |-> Panel_GetPanels(r.Panels[i])])

\* The two append loops of Dashboard.GetPanels.
AppendAll(d) ==
    Concat([i \in 1..Len(d.Rows) |-> Row_GetPanels(d.Rows[i])])
    \o Concat([i \in 1..Len(d.Panels) |-> Panel_GetPanels(d.Panels[i])])

\* p[pi].Targets[ti].Idx = ti, with ti counted from 1 here and from 0 there.
StoreIdx(h, pa, ti) == [h EXCEPT ![pa.Targets.ref][ti] = ti - 1]

\* The index loops of Dashboard.GetPanels from (pi, ti) on.
RECURSIVE IndexLoop(_, _, _, _)
IndexLoop(h, p, pi, ti) ==
    IF pi > Len(p) THEN h
    ELSE IF ti > p[pi].Targets.len THEN IndexLoop(h, p, pi + 1, 1)
    ELSE IndexLoop(StoreIdx(h, p[pi], ti), p, pi, ti + 1)

(***************************************************************************)
(* The dashboards that are flattened.                                      *)
(***************************************************************************)
\* The forests of n panels, unlabelled.
RECURSIVE Forest(_)
Forest(n) ==
    IF n = 0 THEN {<<>>}
    ELSE UNION { { <<[Panels |-> c]>> \o rest : c \in Forest(i - 1), rest \in Forest(n - i) } :
                 i \in 1..n }

RECURSIVE RowLists(_, _)
RowLists(m, n) ==
    IF m = 0 THEN (IF n = 0 THEN {<<>>} ELSE {})
    ELSE UNION { { <<f>> \o rest : f \in Forest(i), rest \in RowLists(m - 1, n - i) } :
                 i \in 0..n }

\* The panels of forest f at position path, each with nt targets.
RECURSIVE Label(_, _, _)
Label(f, path, nt) ==
    [i \in 1..Len(f) |->
        [Title |-> Append(path, i),
         Panels |-> Label(f[i].Panels, Append(path, i), nt),
         Targets |-> [ref |-> Append(path, i), len |-> nt]]]

DashboardOf(rows, panels, nt) ==
    [Rows |-> [r \in 1..Len(rows) |-> [Panels |-> Label(rows[r], <<0, r>>, nt)]],
     Panels |-> Label(panels, <<1>>, nt)]

\* The dashboards of at most n panels, in at most MaxRows rows and at top
\* level, every panel with the same number of targets.
DashboardsUpTo(n) ==
    UNION { UNION { { DashboardOf(rows, panels, nt) :
                        rows \in RowLists(m, a), panels \in Forest(b),
                        nt \in 0..MaxTargets } :
                    b \in 0..(n - a) } :
            m \in 0..MaxRows, a \in 0..n }

RECURSIVE PanelsUnder(_)
PanelsUnder(p) == {p} \cup UNION {PanelsUnder(p.Panels[i]) : i \in 1..Len(p.Panels)}

RowPanels(r) == UNION {PanelsUnder(r.Panels[i]) : i \in 1..Len(r.Panels)}

AllPanels(d) ==
    UNION {RowPanels(d.Rows[r]) : r \in 1..Len(d.Rows)}
    \cup UNION {PanelsUnder(d.Panels[i]) : i \in 1..Len(d.Panels)}

\* The storage of a decoded dashboard: one backing array for each panel,
\* every Idx at the value the decode left it at.
DecodedHeap(d, idx0) ==
    [ref \in {q.Targets.ref : q \in AllPanels(d)} |->
        [ti \in 1..(CHOOSE q \in AllPanels(d) : q.Targets.ref = ref).Targets.len |-> idx0]]

\* The Idx values a decode can leave in a Target (the field has no JSON tag,
\* so a key "idx" of the document sets it).
DecodedIdx == {0, 7}

(***************************************************************************)
(* Spec: the decoders, each called once on an input of its domain.         *)
(***************************************************************************)
Idle == pc = "start" /\ arg = <<>> /\ ret = <<>>

NoHeap == heap = <<>> /\ writers = <<>> /\ g = <<>>

Init == Idle /\ NoHeap

Call_Datasource_UnmarshalJSON ==
    /\ pc = "start"
    /\ \E j \in DatasourceInputs :
          /\ arg' = j
          /\ ret' = DecodeDatasourceField(j)
    /\ pc' = "Datasource.UnmarshalJSON"
    /\ UNCHANGED <<heap, writers, g>>

Call_TemplateValue_UnmarshalJSON ==
    /\ pc = "start"
    /\ \E j \in ObjectsOver({"text", "value"}, Scalars \cup Arrays) :
          /\ arg' = j
          /\ ret' = TemplateValue_UnmarshalJSON(j)
    /\ pc' = "TemplateValue.UnmarshalJSON"
    /\ UNCHANGED <<heap, writers, g>>

Call_Template_UnmarshalJSON ==
    /\ pc = "start"
    /\ \E j \in TemplateInputs :
          /\ arg' = j
          /\ ret' = Template_UnmarshalJSON(j)
    /\ pc' = "Template.UnmarshalJSON"
    /\ UNCHANGED <<heap, writers, g>>

Call_NewDashboard ==
    /\ pc = "start"
    /\ \E list \in TemplateLists :
          /\ arg' = list
          /\ ret' = NewDashboard(list)
    /\ pc' = "NewDashboard"
    /\ UNCHANGED <<heap, writers, g>>

Call_OverrideProperty_UnmarshalJSON ==
    /\ pc = "start"
    /\ \E j \in OverridePropertyInputs :
          /\ arg' = j
          /\ ret' = OverrideProperty_UnmarshalJSON(j)
    /\ pc' = "OverrideProperty.UnmarshalJSON"
    /\ UNCHANGED <<heap, writers, g>>

Next ==
    \/ Call_Datasource_UnmarshalJSON
    \/ Call_TemplateValue_UnmarshalJSON
    \/ Call_Template_UnmarshalJSON
    \/ Call_NewDashboard
    \/ Call_OverrideProperty_UnmarshalJSON

Spec == Init /\ [][Next]_vars

(***************************************************************************)
(* SpecRule: the panel units rule and its unit resolution, each called     *)
(* once on a panel.                                                        *)
(***************************************************************************)
Call_PanelUnitsRule ==
    /\ pc = "start"
    /\ \E t \in PanelTypeInputs :
          \E o \in OptionsFor(t), fc \in FieldConfigsOver(OverridesUpTo(MaxOverrides, MaxProps)) :
             /\ arg' = [Type |-> t, Options |-> o, FieldConfig |-> fc]
             /\ ret' = PanelUnitsRule(arg')
    /\ pc' = "PanelUnitsRule"
    /\ UNCHANGED <<heap, writers, g>>

Call_getConfiguredUnit ==
    /\ pc = "start"
    /\ \E t \in PanelTypeInputs :
          \E o \in OptionsFor(t), fc \in FieldConfigsOver(OverridesUpTo(MaxOverrides, MaxProps)) :
             /\ arg' = [Type |-> t, Options |-> o, FieldConfig |-> fc]
             /\ ret' = getConfiguredUnit(arg')
    /\ pc' = "getConfiguredUnit"
    /\ UNCHANGED <<heap, writers, g>>

NextRule == Call_PanelUnitsRule \/ Call_getConfiguredUnit

SpecRule == Init /\ [][NextRule]_vars

(***************************************************************************)
(* SpecFlatten: one flatten call on a decoded dashboard.                   *)
(***************************************************************************)
InitFlatten ==
    /\ pc = "start"
    /\ ret = <<>>
    /\ \E d \in DashboardsUpTo(MaxPanels), idx0 \in DecodedIdx :
          /\ arg = [d |-> d, recv |-> <<>>]
          /\ heap = DecodedHeap(d, idx0)
    /\ writers = <<>>
    /\ g = <<>>

Call_Dashboard_GetPanels ==
    /\ pc = "start"
    /\ pc' = "Dashboard.GetPanels"
    /\ ret' = AppendAll(arg.d)
    /\ heap' = IndexLoop(heap, AppendAll(arg.d), 1, 1)
    /\ UNCHANGED <<arg, writers, g>>

Call_Panel_GetPanels ==
    /\ pc = "start"
    /\ \E q \in AllPanels(arg.d) :
          /\ arg' = [arg EXCEPT !.recv = q]
          /\ ret' = Panel_GetPanels(q)
    /\ pc' = "Panel.GetPanels"
    /\ UNCHANGED <<heap, writers, g>>

Call_Row_GetPanels ==
    /\ pc = "start"
    /\ \E r \in 1..Len(arg.d.Rows) :
          /\ arg' = [arg EXCEPT !.recv = arg.d.Rows[r]]
          /\ ret' = Row_GetPanels(arg.d.Rows[r])
    /\ pc' = "Row.GetPanels"
    /\ UNCHANGED <<heap, writers, g>>

NextFlatten == Call_Dashboard_GetPanels \/ Call_Panel_GetPanels \/ Call_Row_GetPanels

SpecFlatten == InitFlatten /\ [][NextFlatten]_vars

(***************************************************************************)
(* SpecConcurrent: NumCalls calls of Dashboard.GetPanels run concurrently  *)
(* on one decoded dashboard.  A call appends into its own slice p, then    *)
(* stores the indices one Target at a time, then returns p.  writers       *)
(* records which calls have stored into each Target record.                *)
(***************************************************************************)
Calls == 1..NumCalls

InitConcurrent ==
    /\ pc = "concurrent"
    /\ \E d \in DashboardsUpTo(MaxConcurrentPanels), idx0 \in DecodedIdx :
          /\ arg = [d |-> d, recv |-> <<>>]
          /\ heap = DecodedHeap(d, idx0)
          /\ writers = [ref \in DOMAIN DecodedHeap(d, idx0) |->
                           [ti \in DOMAIN DecodedHeap(d, idx0)[ref] |-> {}]]
    /\ ret = [c \in Calls |-> <<>>]
    /\ g = [c \in Calls |-> [pc |-> "start", p |-> <<>>, pi |-> 1, ti |-> 1]]

\* for _, row := range d.Rows ... for _, panel := range d.Panels ...
AppendPanels(c) ==
    /\ g[c].pc = "start"
    /\ g' = [g EXCEPT ![c] = [pc |-> "index", p |-> AppendAll(arg.d), pi |-> 1, ti |-> 1]]
    /\ UNCHANGED <<pc, arg, ret, heap, writers>>

\* p[pi].Targets[ti].Idx = ti
StoreTargetIdx(c) ==
    /\ g[c].pc = "index"
    /\ g[c].pi <= Len(g[c].p)
    /\ g[c].ti <= g[c].p[g[c].pi].Targets.len
    /\ heap' = StoreIdx(heap, g[c].p[g[c].pi], g[c].ti)
    /\ writers' = [writers EXCEPT ![g[c].p[g[c].pi].Targets.ref][g[c].ti] = @ \cup {c}]
    /\ g' = [g EXCEPT ![c].ti = @ + 1]
    /\ UNCHANGED <<pc, arg, ret>>

\* The inner range is exhausted: on to the next panel of p.
NextPanel(c) ==
    /\ g[c].pc = "index"
    /\ g[c].pi <= Len(g[c].p)
    /\ g[c].ti > g[c].p[g[c].pi].Targets.len
    /\ g' = [g EXCEPT ![c].pi = @ + 1, ![c].ti = 1]
    /\ UNCHANGED <<pc, arg, ret, heap, writers>>

\* return p
ReturnPanels(c) ==
    /\ g[c].pc = "index"
    /\ g[c].pi > Len(g[c].p)
    /\ g' = [g EXCEPT ![c].pc = "done"]
    /\ ret' = [ret EXCEPT ![c] = g[c].p]
    /\ UNCHANGED <<pc, arg, heap, writers>>

NextConcurrent ==
    \E c \in Calls :
        \/ AppendPanels(c)
        \/ StoreTargetIdx(c)
        \/ NextPanel(c)
        \/ ReturnPanels(c)

SpecConcurrent == InitConcurrent /\ [][NextConcurrent]_vars

(***************************************************************************)
(* The claims.                                                             *)
(***************************************************************************)
\* The single error result the rule adds for a missing or invalid unit.
NoUnitsResult(unit) == <<[severity |-> "Error", message |-> NoUnitsMessage(unit)]>>

\* The panel is skipped by the stat reduce-options condition.
SkippedByReduceOptions(p) ==
    /\ p.Type = "stat"
    /\ p.Options.k = "object"
    /\ Field(p.Options, "reduceOptions").k = "object"
    /\ Field(Field(p.Options, "reduceOptions"), "fields").k = "string"
    /\ Field(Field(p.Options, "reduceOptions"), "fields").v # ""

\* The positions, among the scanned override properties, of those with id.
PropertiesWithId(p, id) ==
    {i \in 1..Len(ScannedProperties(p)) : ScannedProperties(p)[i].Id = id}

Min(S) == CHOOSE x \in S : \A y \in S : x <= y

\* The panel carries no mappings payload at all, override or default.
NoValueMappings(p) ==
    /\ \A i \in PropertiesWithId(p, "mappings") : ScannedProperties(p)[i].Value.k = "null"
    /\ p.FieldConfig.k # "nil" => p.FieldConfig.Defaults.Mappings.k \in {"absent", "null"}

\* The unit as the data model resolves it: the value of the first override
\* property with id "unit", else Defaults.Unit, else the empty string.
FirstOverrideUnit(p) ==
    IF PropertiesWithId(p, "unit") # {}
    THEN ScannedProperties(p)[Min(PropertiesWithId(p, "unit"))].Value
    ELSE IF p.FieldConfig.k # "nil" THEN JStr(p.FieldConfig.Defaults.Unit)
    ELSE JStr("")

\* C1: on an in-scope panel that is not skipped by the stat reduce-options
\* condition and has no value mappings, the rule returns no result when the
\* resolved unit is a non-empty member of the unit catalog and otherwise
\* exactly one error, "has no or invalid units defined: '<unit>'"; on a panel
\* of any other type it returns no result.
C1_UnitValidity ==
    pc = "PanelUnitsRule" =>
        IF arg.Type \notin InScopeTypes THEN ret = Ok(<<>>)
        ELSE (~SkippedByReduceOptions(arg) /\ NoValueMappings(arg)) =>
                LET unit == FirstOverrideUnit(arg)
                IN  IF unit.k = "string" /\ unit.v # "" /\ unit.v \in validUnits
                    THEN ret = Ok(<<>>)
                    ELSE /\ ret.k = "ok"
                         /\ Len(ret.v) = 1
                         /\ ret.v[1].severity = "Error"
                         /\ unit.k = "string" => ret.v = NoUnitsResult(unit.v)

\* C2: the resolved unit is the value of the first override property with id
\* "unit" in scan order, Defaults.Unit when no override property has that id,
\* and the empty string when that is unset too.
C2_FirstUnitOverrideWins ==
    pc = "getConfiguredUnit" =>
        /\ ret.k = "ok"
        /\ JStr(ret.v) = FirstOverrideUnit(arg)

\* C3: when resolving the value mappings of an in-scope panel fails with a
\* decode error, the rule returns exactly one result, the decode error, and
\* no "has no or invalid units defined" result; the rule returns at most one
\* result for any panel.
C3_MappingErrorOnly ==
    pc = "PanelUnitsRule" =>
        /\ ret.k = "ok" => Len(ret.v) <= 1
        /\ ( /\ arg.Type \in InScopeTypes
             /\ ~SkippedByReduceOptions(arg)
             /\ getValueMappings(arg).err # "" )
           => ret = Ok(<<[severity |-> "Error", message |-> getValueMappings(arg).err]>>)

\* C4: an absent or null datasource decodes to the empty string, a JSON
\* string to itself, an object with a string "uid" to that uid, and every
\* other shape is a decode error.
C4_DatasourceDecoding ==
    pc = "Datasource.UnmarshalJSON" =>
        CASE arg.k \in {"absent", "null"} -> ret = Ok("")
          [] arg.k = "string" -> ret = Ok(arg.v)
          [] arg.k = "object" /\ Field(arg, "uid").k = "string" -> ret = Ok(arg.v["uid"].v)
          [] OTHER -> ret.k = "err"

C4_Witness ==
    /\ pc = "Datasource.UnmarshalJSON"
    /\ arg.k = "object"
    /\ Field(arg, "uid") = JStr("ds-uid")
    /\ Field(arg, "type").k = "number"
    /\ ret = Ok("ds-uid")

\* The key "current" of the template is absent or decodes.
CurrentDecodes(t) ==
    Field(t, "current").k = "absent"
    \/ TemplateValue_UnmarshalJSON(Field(t, "current")).k = "ok"

TypeOf(t) == IF Field(t, "type").k = "string" THEN t.v["type"].v ELSE ""

\* What C5 says of the decode of template t with outcome r, where r.v is
\* the decoded template.
QueryDecoded(t, r) ==
    LET q == Field(t, "query")
    IN  IF TypeOf(t) \in {"adhoc", "custom"}
        THEN r.k = "ok" /\ r.v.Query = ""
        ELSE CASE q.k = "string" -> r.k = "ok" /\ r.v.Query = q.v
               [] q.k = "object" /\ Field(q, "query").k = "string" ->
                     r.k = "ok" /\ r.v.Query = q.v["query"].v
               [] OTHER -> r.k = "err"

\* C5: a template that is neither adhoc nor custom stores a string query
\* verbatim and the string under an object's "query" key, and any other
\* query shape is a decode error returned to the caller of NewDashboard; an
\* adhoc or custom template decodes whatever its query, with an empty Query.
C5_TemplateQueryDecoding ==
    /\ (pc = "Template.UnmarshalJSON" /\ CurrentDecodes(arg)) => QueryDecoded(arg, ret)
    /\ (pc = "NewDashboard" /\ Len(arg) = 1 /\ CurrentDecodes(arg[1])) =>
          QueryDecoded(arg[1], IF ret.k = "ok" THEN Ok(ret.v[1]) ELSE ret)

\* What C6 says of key name of the current value j: the string stored for
\* it, or "error" for a shape that must end in a decode error.
CurrentString(j, name) ==
    LET x == Field(j, name)
    IN  CASE x.k = "absent" -> Ok("")
          [] x.k = "string" -> Ok(x.v)
          [] x.k = "array" /\ Len(x.v) > 0 /\ x.v[1].k = "string" -> Ok(x.v[1].v)
          [] OTHER -> Err("")

\* C6: for each of "text" and "value", an absent key leaves the zero value,
\* a string is stored verbatim, an array stores its first element when that
\* is a string, and every other shape ends in a returned decode error.
C6_TemplateValueDecoding ==
    pc = "TemplateValue.UnmarshalJSON" =>
        IF CurrentString(arg, "text").k = "ok" /\ CurrentString(arg, "value").k = "ok"
        THEN ret = Ok([Text |-> CurrentString(arg, "text").v,
                       Value |-> CurrentString(arg, "value").v])
        ELSE ret.k = "err"

\* Position a comes before position b in document order: a is a proper
\* prefix of b (an ancestor of b), or a turns, at the first place where the
\* two differ, to the smaller index (an earlier row, a row rather than the
\* top-level panels, an earlier sibling).
RECURSIVE Before(_, _)
Before(a, b) ==
    IF a = <<>> THEN b # <<>>
    ELSE IF b = <<>> THEN FALSE
    ELSE \/ Head(a) < Head(b)
         \/ Head(a) = Head(b) /\ Before(Tail(a), Tail(b))

\* flat holds exactly the panels of the set all, each once, in document
\* order.
FlattensTo(flat, all) ==
    /\ Len(flat) = Cardinality(all)
    /\ {flat[i] : i \in 1..Len(flat)} = all
    /\ \A i, j \in 1..Len(flat) : i < j => Before(flat[i].Title, flat[j].Title)

\* C7: Dashboard.GetPanels returns every panel of the dashboard exactly once
\* and no other, the panels of the rows in row order before the top-level
\* panels, each tree in depth-first pre-order; Panel.GetPanels returns the
\* panel first, then the pre-order flatten of its children.
C7_Flattening ==
    /\ pc = "Dashboard.GetPanels" => FlattensTo(ret, AllPanels(arg.d))
    /\ pc = "Row.GetPanels" => FlattensTo(ret, RowPanels(arg.recv))
    /\ pc = "Panel.GetPanels" =>
          /\ FlattensTo(ret, PanelsUnder(arg.recv))
          /\ Head(ret) = arg.recv

C7_Witness ==
    /\ pc = "Dashboard.GetPanels"
    /\ Len(arg.d.Rows) = 1
    /\ Len(arg.d.Rows[1].Panels) = 1
    /\ Len(arg.d.Rows[1].Panels[1].Panels) = 1
    /\ Len(arg.d.Panels) = 2
    /\ [i \in 1..Len(ret) |-> ret[i].Title] = <<<<0, 1, 1>>, <<0, 1, 1, 1>>, <<1, 1>>, <<1, 2>>>>

\* C8: in every interleaving of concurrent flatten calls no call writes a
\* Target record that another call writes (a flatten call reads none), and
\* every panel a call returns has each Target's Idx at its zero-based
\* position.
C8_NoCrossTalk ==
    pc = "concurrent" =>
        /\ \A ref \in DOMAIN writers : \A ti \in DOMAIN writers[ref] :
              Cardinality(writers[ref][ti]) <= 1
        /\ \A c \in Calls : g[c].pc = "done" =>
              \A i \in 1..Len(ret[c]) : \A ti \in 1..ret[c][i].Targets.len :
                 heap[ret[c][i].Targets.ref][ti] = ti - 1

\* C9: decoding an override property never returns an error, and from an
\* object {"id": i, "value": v} with strings i and v the decoded property
\* carries Id = i and Value = v.
C9_OverridePropertyDecoding ==
    pc = "OverrideProperty.UnmarshalJSON" =>
        /\ ret.k = "ok"
        /\ (arg.k = "object" /\ Field(arg, "id").k = "string" /\ Field(arg, "value").k = "string")
           => ret.v = [Id |-> arg.v["id"].v, Value |-> arg.v["value"].v]

====
